---- MODULE Spec2Model ----
(***************************************************************************)
(* Model of libs/gltfio/src/UbershaderLoader.cpp: the UbershaderLoader     *)
(* material provider.  The loader keeps a hash map from MaterialKey to a   *)
(* filament Material (mCache), the list of the materials it built          *)
(* (mMaterials) and the material built in its constructor (mMaterial).     *)
(* The filament engine is modelled by what the loader asks of it: the log  *)
(* of Material builds, the number of times each Material was destroyed and *)
(* the createMaterialInstance calls with the instance each returned.       *)
(*                                                                         *)
(* gltfio::details::constrainMaterial and the MaterialKey and UvMap types  *)
(* are declared outside this file.  constrainMaterial is modelled from the *)
(* specification of the key normalizer; of MaterialKey the model has the   *)
(* fields this file reads, and the cache tells keys apart on every one of  *)
(* them (HashFn is MurmurHashFn over the whole MaterialKey).               *)
(*                                                                         *)
(* Material::Builder::build answers a Material or nullptr.  The loader     *)
(* does not test the answer, so a nullptr is cached and then dereferenced; *)
(* the dereference is undefined and is modelled as a crash or as a call    *)
(* that goes on with a garbage instance.                                   *)
(***************************************************************************)
EXTENDS Integers, Sequences, FiniteSets, TLC

(* ------------------------------ bounds -------------------------------- *)

\* Spec: number of Material builds createMaterialInstance may ask for.
MaxCompiles == 2

\* Spec: number of createMaterialInstance calls.
MaxInstances == 3

\* SpecBinding: number of createMaterialInstance calls (and of builds).
MaxBindCalls == 2

(* --------------------------- program constants ------------------------ *)

\* nullptr, as a Material*.
Null == 0

\* std::tuple_size<UvMap>::value
UvMapSize == 8

\* float2 uvs[2] in the shader: the number of UV sets a material can read.
MaxSlots == 2

AlphaModes == {"OPAQUE", "MASK", "BLEND"}

Channels == {"baseColor", "normal", "metallicRoughness", "ao", "emissive"}

(* ------------------------------ MaterialKey --------------------------- *)

\* The fields of MaterialKey that UbershaderLoader.cpp reads.  The threshold
\* is in tenths (5 is 0.5).
DefaultKey ==
    [ doubleSided |-> FALSE, unlit |-> FALSE,
      alphaMode |-> "OPAQUE", alphaMaskThreshold |-> 5,
      hasBaseColorTexture |-> FALSE, baseColorUV |-> 0,
      hasNormalTexture |-> FALSE, normalUV |-> 0,
      hasMetallicRoughnessTexture |-> FALSE, metallicRoughnessUV |-> 0,
      hasOcclusionTexture |-> FALSE, aoUV |-> 0,
      hasEmissiveTexture |-> FALSE, emissiveUV |-> 0 ]

\* The has*Texture flag and the *UV index of a channel, as named on lines 233-239.
HasTexture(key, c) ==
    CASE c = "baseColor" -> key.hasBaseColorTexture
      [] c = "normal" -> key.hasNormalTexture
      [] c = "metallicRoughness" -> key.hasMetallicRoughnessTexture
      [] c = "ao" -> key.hasOcclusionTexture
      [] c = "emissive" -> key.hasEmissiveTexture

ChannelUV(key, c) ==
    CASE c = "baseColor" -> key.baseColorUV
      [] c = "normal" -> key.normalUV
      [] c = "metallicRoughness" -> key.metallicRoughnessUV
      [] c = "ao" -> key.aoUV
      [] c = "emissive" -> key.emissiveUV

WithChannel(key, c, has, uv) ==
    CASE c = "baseColor" ->
            [key EXCEPT !.hasBaseColorTexture = has, !.baseColorUV = uv]
      [] c = "normal" ->
            [key EXCEPT !.hasNormalTexture = has, !.normalUV = uv]
      [] c = "metallicRoughness" ->
            [key EXCEPT !.hasMetallicRoughnessTexture = has, !.metallicRoughnessUV = uv]
      [] c = "ao" ->
            [key EXCEPT !.hasOcclusionTexture = has, !.aoUV = uv]
      [] c = "emissive" ->
            [key EXCEPT !.hasEmissiveTexture = has, !.emissiveUV = uv]

(* ------------------------- inputs of the caller ----------------------- *)

\* UvMap with the two given entries at source sets 0 and 3, zero elsewhere.
MkUvMap(e0, e3) ==
    [i \in 0..(UvMapSize - 1) |-> IF i = 0 THEN e0 ELSE IF i = 3 THEN e3 ELSE 0]

\* Source set 3 has no slot, the second slot, or a slot beyond the shader's two.
UvMaps == {MkUvMap(1, 0), MkUvMap(1, 2)}

OverBudgetUvMap == MkUvMap(1, 3)

Labels == {"mat0", "mat1"}

\* Keys that differ from the default in the render state only.
RenderKeys ==
    {[DefaultKey EXCEPT !.alphaMode = a] : a \in AlphaModes}
    \cup {[DefaultKey EXCEPT !.unlit = TRUE],
          [DefaultKey EXCEPT !.alphaMode = "MASK", !.alphaMaskThreshold = 3],
          [DefaultKey EXCEPT !.doubleSided = TRUE]}

\* Keys that differ from the default in one texture channel, which reads
\* source set 3 (with or without a texture) or (base color) source set 0.
TextureKeys ==
    {WithChannel(DefaultKey, c, has, 3) : c \in Channels, has \in BOOLEAN}
    \cup {WithChannel(DefaultKey, "baseColor", TRUE, 0)}

\* The (MaterialKey, UvMap, label) triples handed to createMaterialInstance
\* in SpecBinding: every render state, every channel with and without a
\* texture, with a slot, without one and with one beyond the shader's two.
RawMaterials ==
    {[key |-> k, uvmap |-> MkUvMap(1, 0), label |-> "mat0"] : k \in RenderKeys}
    \cup {[key |-> DefaultKey, uvmap |-> MkUvMap(1, 0), label |-> l] : l \in Labels}
    \cup {[key |-> k, uvmap |-> u, label |-> "mat0"] : k \in TextureKeys, u \in UvMaps}
    \cup {[key |-> WithChannel(DefaultKey, c, TRUE, 3), uvmap |-> OverBudgetUvMap,
           label |-> "mat0"] : c \in Channels}

\* The triples handed to createMaterialInstance in Spec.  After
\* constrainMaterial they have four keys: the default one, and the normal
\* channel on source set 3 with its texture, on 3 without and on 5 without.
CacheMaterials ==
    {[key |-> DefaultKey, uvmap |-> MkUvMap(1, 0), label |-> l] : l \in Labels}
    \cup {[key |-> WithChannel(DefaultKey, "normal", TRUE, 3), uvmap |-> u,
            label |-> "mat0"] : u \in UvMaps}
    \cup {[key |-> WithChannel(DefaultKey, "normal", FALSE, 3), uvmap |-> MkUvMap(1, 2),
            label |-> "mat0"],
          [key |-> WithChannel(DefaultKey, "normal", TRUE, 5), uvmap |-> MkUvMap(1, 0),
            label |-> "mat0"]}

(* ------------------------------ state --------------------------------- *)

VARIABLES
    mCache,      \* tsl::robin_map<MaterialKey, Material*>: function key -> material
    mMaterials,  \* std::vector<Material*>
    mMaterial,   \* the Material built by the constructor
    built,       \* engine: the Material builds, built[p] made material p
    destroyed,   \* engine: destroyed[p] = number of mEngine->destroy(p) calls
    calls,       \* the createMaterialInstance calls made: arguments as passed,
                 \* *config after the call, the material used, the instance returned
    teardown,    \* Len(built) and Len(calls) at the last destroyMaterials
    arg,         \* the arguments of the last createMaterialInstance call, as passed
    config,      \* *config after the last call
    uvmap,       \* *uvmap after the last call
    mi,          \* the MaterialInstance the last call returned
    alive        \* FALSE once the process has crashed

vars == <<mCache, mMaterials, mMaterial, built, destroyed, calls, teardown,
          arg, config, uvmap, mi, alive>>

NoCall == [none |-> TRUE]
NoInstance == [none |-> TRUE]
EmptyCache == [k \in {} |-> Null]

\* getMaterialsCount()
getMaterialsCount == Len(mMaterials)

\* getMaterials()
getMaterials == mMaterials

(* ------------------- gltfio::details::constrainMaterial --------------- *)

\* A channel keeps its texture when the UV set it reads has a shader slot.
ChannelReadable(key, uvm, c) ==
    /\ HasTexture(key, c)
    /\ uvm[ChannelUV(key, c)] # 0
    /\ uvm[ChannelUV(key, c)] <= MaxSlots

\* constrainMaterial(config, uvmap): clears the has*Texture flag of every
\* channel whose UV set has no slot or a slot beyond the two of the shader.
constrainMaterial(key, uvm) ==
    [ key |->
        [key EXCEPT
            !.hasBaseColorTexture = ChannelReadable(key, uvm, "baseColor"),
            !.hasNormalTexture = ChannelReadable(key, uvm, "normal"),
            !.hasMetallicRoughnessTexture = ChannelReadable(key, uvm, "metallicRoughness"),
            !.hasOcclusionTexture = ChannelReadable(key, uvm, "ao"),
            !.hasEmissiveTexture = ChannelReadable(key, uvm, "emissive")],
      uvmap |-> uvm ]

(* ------------------------- shader synthesis --------------------------- *)

\* shaderFromKey(config): the same text for every key.
shaderFromKey(key) == "ubershader"

\* The builder.parameter calls of createMaterial, in order.
ParameterDecls ==
    << <<"INT", "baseColorIndex">>, <<"FLOAT4", "baseColorFactor">>,
       <<"SAMPLER_2D", "baseColorMap">>, <<"MAT3", "baseColorUvMatrix">>,
       <<"BOOL", "blendEnabled">>,
       <<"INT", "metallicRoughnessIndex">>, <<"FLOAT", "metallicFactor">>,
       <<"FLOAT", "roughnessFactor">>, <<"SAMPLER_2D", "metallicRoughnessMap">>,
       <<"MAT3", "metallicRoughnessUvMatrix">>,
       <<"INT", "normalIndex">>, <<"FLOAT", "normalScale">>,
       <<"SAMPLER_2D", "normalMap">>, <<"MAT3", "normalUvMatrix">>,
       <<"INT", "aoIndex">>, <<"FLOAT", "aoStrength">>,
       <<"SAMPLER_2D", "occlusionMap">>, <<"MAT3", "occlusionUvMatrix">>,
       <<"INT", "emissiveIndex">>, <<"FLOAT3", "emissiveFactor">>,
       <<"SAMPLER_2D", "emissiveMap">>, <<"MAT3", "emissiveUvMatrix">> >>

NoThreshold == -1

\* A switch whose MASK case runs on into the BLEND case.
BlendingOf_MaskFallsThrough(key) ==
    CASE key.alphaMode = "OPAQUE" ->
            [blending |-> "OPAQUE", maskThreshold |-> NoThreshold, depthWrite |-> "default"]
      [] key.alphaMode = "MASK" ->
            [blending |-> "TRANSPARENT", maskThreshold |-> key.alphaMaskThreshold,
             depthWrite |-> "on"]
      [] key.alphaMode = "BLEND" ->
            [blending |-> "TRANSPARENT", maskThreshold |-> NoThreshold, depthWrite |-> "on"]

\* The switch on config.alphaMode: blending, mask threshold, depth write.
BlendingOf(key) ==
    CASE key.alphaMode = "OPAQUE" ->
            [blending |-> "OPAQUE", maskThreshold |-> NoThreshold, depthWrite |-> "default"]
      [] key.alphaMode = "MASK" ->
            [blending |-> "MASKED", maskThreshold |-> key.alphaMaskThreshold,
             depthWrite |-> "default"]
      [] key.alphaMode = "BLEND" ->
            [blending |-> "TRANSPARENT", maskThreshold |-> NoThreshold, depthWrite |-> "on"]

ShadingOf(key) == IF key.unlit THEN "UNLIT" ELSE "LIT"

\* A createMaterial whose shader text depends on numTextures.
createMaterial_UsesNumTextures(key, uvm, name, ok) ==
    [ name |-> name, key |-> key, package |-> "built",
      shader |-> IF \E i \in DOMAIN uvm : uvm[i] > 1
                 THEN "ubershader, two UV sets" ELSE "ubershader, one UV set",
      parameters |-> ParameterDecls,
      doubleSided |-> key.doubleSided,
      blending |-> BlendingOf(key).blending,
      maskThreshold |-> BlendingOf(key).maskThreshold,
      depthWrite |-> BlendingOf(key).depthWrite,
      shading |-> ShadingOf(key),
      ok |-> ok ]

\* createMaterial(engine, config, uvmap, name): what is handed to the engine's
\* Material builder.  ok is the builder's answer: a Material, or nullptr.
\* numTextures (the largest entry of uvmap) is computed and not used.
createMaterial(key, uvm, name, ok) ==
    [ name |-> name, key |-> key, package |-> "built",
      shader |-> shaderFromKey(key), parameters |-> ParameterDecls,
      doubleSided |-> key.doubleSided,
      blending |-> BlendingOf(key).blending,
      maskThreshold |-> BlendingOf(key).maskThreshold,
      depthWrite |-> BlendingOf(key).depthWrite,
      shading |-> ShadingOf(key),
      ok |-> ok ]

\* The constructor's Material, built from the packaged ubershader.
PackagedMaterial ==
    [ name |-> "ubershader", key |-> NoCall, package |-> "GLTFRESOURCES_UBERSHADER",
      shader |-> "packaged", parameters |-> << >>,
      doubleSided |-> FALSE, blending |-> "OPAQUE", maskThreshold |-> NoThreshold,
      depthWrite |-> "default", shading |-> "LIT", ok |-> TRUE ]

(* ------------------------ createMaterialInstance ---------------------- *)

\* A lookup that never finds its key.
CacheHit_NeverFinds(cache, key) == FALSE

\* mCache.find(*config) != mCache.end()
CacheHit(cache, key) == key \in DOMAIN cache

\* mCache.emplace(std::make_pair(*config, material))
CacheEmplace(cache, key, material) ==
    IF key \in DOMAIN cache THEN cache
    ELSE [k \in DOMAIN cache \cup {key} |-> IF k = key THEN material ELSE cache[k]]

\* An index that is the slot number, not the slot number less one.
getUvIndex_SlotNumber(uvm, srcIndex, hasTexture) ==
    IF hasTexture THEN uvm[srcIndex] ELSE -1

\* An index computed without a look at the has*Texture flag.
getUvIndex_IgnoresFlag(uvm, srcIndex, hasTexture) == uvm[srcIndex] - 1

\* The lambda getUvIndex.  uvmap->at(srcIndex) is defined for srcIndex below
\* UvMapSize, which holds of every argument drawn here.
getUvIndex(uvm, srcIndex, hasTexture) ==
    IF hasTexture THEN uvm[srcIndex] - 1 ELSE -1

\* A blend flag that is set for every mode but OPAQUE.
BlendEnabled_NotOpaque(key) == key.alphaMode # "OPAQUE"

\* config->alphaMode == AlphaMode::BLEND
BlendEnabled(key) == key.alphaMode = "BLEND"

\* The setParameter calls on the new instance.
BindParameters(material, key, uvm) ==
    [ material |-> material,
      baseColorIndex |-> getUvIndex(uvm, key.baseColorUV, key.hasBaseColorTexture),
      normalIndex |-> getUvIndex(uvm, key.normalUV, key.hasNormalTexture),
      metallicRoughnessIndex |->
          getUvIndex(uvm, key.metallicRoughnessUV, key.hasMetallicRoughnessTexture),
      aoIndex |-> getUvIndex(uvm, key.aoUV, key.hasOcclusionTexture),
      emissiveIndex |-> getUvIndex(uvm, key.emissiveUV, key.hasEmissiveTexture),
      uvMatrices |-> "identity",
      blendEnabled |-> BlendEnabled(key) ]

\* Number of Material builds createMaterialInstance has asked for.
NumCompiles == Len(built) - 1

\* A lookup with the key as the caller passed it.
LookupKey_Raw(raw) == raw.key

\* A lookup with a key that leaves the has*Texture flags out.
LookupKey_DropsTextureFlags(raw) ==
    [constrainMaterial(raw.key, raw.uvmap).key EXCEPT
        !.hasBaseColorTexture = FALSE, !.hasNormalTexture = FALSE,
        !.hasMetallicRoughnessTexture = FALSE, !.hasOcclusionTexture = FALSE,
        !.hasEmissiveTexture = FALSE]

\* A lookup with a key whose disabled channels all read source set 0.
LookupKey_ResetsDisabledUv(raw) ==
    LET k == constrainMaterial(raw.key, raw.uvmap).key
    IN  [k EXCEPT
            !.baseColorUV = IF k.hasBaseColorTexture THEN @ ELSE 0,
            !.normalUV = IF k.hasNormalTexture THEN @ ELSE 0,
            !.metallicRoughnessUV = IF k.hasMetallicRoughnessTexture THEN @ ELSE 0,
            !.aoUV = IF k.hasOcclusionTexture THEN @ ELSE 0,
            !.emissiveUV = IF k.hasEmissiveTexture THEN @ ELSE 0]

\* The key the cache is searched with: *config after constrainMaterial.
LookupKey(raw) == constrainMaterial(raw.key, raw.uvmap).key

\* The cache after the miss branch has run.
InsertMiss(cache, key, material) == CacheEmplace(cache, key, material)

\* A miss that leaves the list alone.
PushMiss_Forgets(materials, material) == materials

\* mMaterials.push_back(material)
PushMiss(materials, material) == Append(materials, material)

\* A call that leaves constrainMaterial out.
ConstrainedArgs_Skipped(raw) == [key |-> raw.key, uvmap |-> raw.uvmap]

\* gltfio::details::constrainMaterial(config, uvmap), on the caller's objects.
ConstrainedArgs(raw) == constrainMaterial(raw.key, raw.uvmap)

\* createMaterialInstance(config, uvmap, label).  compileOk is the engine's
\* answer to the build a miss asks for; onNull is what the dereference of a
\* null Material does (material->createInstance() on nullptr is undefined).
createMaterialInstance(raw, compileOk, onNull) ==
    LET n == ConstrainedArgs(raw)
        key == LookupKey(raw)
        hit == CacheHit(mCache, key)
        newId == Len(built) + 1
        material == IF hit THEN mCache[key]
                    ELSE IF compileOk THEN newId ELSE Null
    IN  /\ alive
        /\ arg' = raw
        /\ config' = n.key
        /\ uvmap' = n.uvmap
        /\ IF hit
           THEN UNCHANGED <<mCache, mMaterials, built, destroyed>>
           ELSE /\ built' = Append(built, createMaterial(n.key, n.uvmap, raw.label, compileOk))
                /\ mCache' = InsertMiss(mCache, key, material)
                /\ mMaterials' = PushMiss(mMaterials, material)
                /\ destroyed' = Append(destroyed, 0)
        /\ IF material = Null /\ onNull = "crash"
           THEN /\ alive' = FALSE
                /\ mi' = NoInstance
           ELSE /\ mi' = BindParameters(material, n.key, n.uvmap)
                /\ UNCHANGED alive
        /\ calls' = Append(calls, [raw |-> raw, key |-> n.key, material |-> material,
                                   instance |-> mi'])
        /\ UNCHANGED <<mMaterial, teardown>>

\* What the engine may answer to the build of a call: nothing is built on a hit.
BuildAnswers(raw) ==
    IF CacheHit(mCache, LookupKey(raw)) THEN {TRUE} ELSE BOOLEAN

\* What material->createInstance() may do: defined unless material is nullptr.
NullDereference(compileOk) ==
    IF compileOk THEN {"none"} ELSE {"crash", "garbage"}

(* --------------------------- destroyMaterials ------------------------- *)

\* mEngine->destroy(material); destroying nullptr does nothing.
EngineDestroy(d, released) ==
    [p \in DOMAIN d |-> IF p \in released THEN d[p] + 1 ELSE d[p]]

\* A loop over the cache that visits nothing.
CachedMaterials_None == {}

\* for (auto& iter : mCache): the materials iter.second.
CachedMaterials == {mCache[k] : k \in DOMAIN mCache}

\* A teardown that releases the materials and clears the list, not the map.
destroyMaterials_KeepsCache ==
    /\ alive
    /\ destroyed' = EngineDestroy(destroyed, CachedMaterials \ {Null})
    /\ mMaterials' = << >>
    /\ teardown' = [builds |-> Len(built), calls |-> Len(calls)]
    /\ UNCHANGED <<mCache, mMaterial, built, calls, arg, config, uvmap, mi, alive>>

destroyMaterials ==
    /\ alive
    /\ destroyed' = EngineDestroy(destroyed, CachedMaterials \ {Null})
    /\ mMaterials' = << >>
    /\ mCache' = EmptyCache
    /\ teardown' = [builds |-> Len(built), calls |-> Len(calls)]
    /\ UNCHANGED <<mMaterial, built, calls, arg, config, uvmap, mi, alive>>

(* ----------------------------- specification -------------------------- *)

Init ==
    /\ mCache = EmptyCache
    /\ mMaterials = << >>
    /\ mMaterial = 1
    /\ built = <<PackagedMaterial>>
    /\ destroyed = <<0>>
    /\ calls = << >>
    /\ teardown = [builds |-> 1, calls |-> 0]
    /\ arg = NoCall
    /\ config = NoCall
    /\ uvmap = NoCall
    /\ mi = NoInstance
    /\ alive = TRUE

\* The calls a specification explores: at most maxInstances calls and at
\* most maxCompiles builds.
Within(raw, maxCompiles, maxInstances) ==
    /\ Len(calls) < maxInstances
    /\ CacheHit(mCache, LookupKey(raw)) \/ NumCompiles < maxCompiles

\* The cache over its life: few keys, builds that may fail.
Next ==
    \/ \E raw \in CacheMaterials :
          \E compileOk \in BuildAnswers(raw) :
             \E onNull \in NullDereference(compileOk) :
                /\ Within(raw, MaxCompiles, MaxInstances)
                /\ createMaterialInstance(raw, compileOk, onNull)
    \/ destroyMaterials

Spec == Init /\ [][Next]_vars

\* The binding of instances: every material of RawMaterials, builds that succeed.
NextBinding ==
    \/ \E raw \in RawMaterials :
          /\ Within(raw, MaxBindCalls, MaxBindCalls)
          /\ createMaterialInstance(raw, TRUE, "none")
    \/ destroyMaterials

SpecBinding == Init /\ [][NextBinding]_vars

(* ------------------------------- claims ------------------------------- *)

\* The calls and the builds made since the last destroyMaterials.
CurrentCalls == (teardown.calls + 1)..Len(calls)

CurrentBuilds == (teardown.builds + 1)..Len(built)

\* A step of createMaterialInstance; any other step that changes the state
\* is a destroyMaterials.
CallStep == Len(calls') = Len(calls) + 1

DestroyStep == Len(calls') = Len(calls)

\* C1: between two destroyMaterials, a Material is built at most once for a
\* normalized key, and two calls with equal normalized keys use the same
\* Material, whatever their label and UvMap.
C1_OneBuildPerKey ==
    /\ \A p, q \in CurrentBuilds : built[p].key = built[q].key => p = q
    /\ \A i, j \in CurrentCalls :
          calls[i].key = calls[j].key =>
             /\ calls[i].material = calls[j].material
             /\ (calls[i].instance # NoInstance /\ calls[j].instance # NoInstance
                   => calls[i].instance.material = calls[j].instance.material)

\* Two calls with equal normalized keys, different raw keys and different
\* UvMaps were bound to one built Material.
C1_Witness ==
    \E i, j \in CurrentCalls :
       /\ i < j
       /\ calls[i].key = calls[j].key
       /\ calls[i].raw.uvmap # calls[j].raw.uvmap
       /\ calls[i].raw.key # calls[j].raw.key
       /\ calls[i].material # Null
       /\ calls[i].instance # NoInstance /\ calls[j].instance # NoInstance
       /\ calls[i].instance.material = calls[j].instance.material

\* C2: a createMaterialInstance call raises getMaterialsCount() by one when
\* its normalized key is not in the cache and leaves it alone when it is, so
\* the count is the number of distinct normalized keys passed since the last
\* destroyMaterials.
C2_CountTracksDistinctKeys ==
    [][ /\ CallStep =>
             getMaterialsCount' =
                getMaterialsCount + (IF config' \in DOMAIN mCache THEN 0 ELSE 1)
        /\ getMaterialsCount' = Cardinality({calls'[i].key : i \in CurrentCalls'})
      ]_vars

\* Three calls since the last teardown, two distinct keys, count 2.
C2_Witness ==
    /\ Len(calls) - teardown.calls = 3
    /\ Cardinality({calls[i].key : i \in CurrentCalls}) = 2
    /\ getMaterialsCount = 2

\* C3: a call whose build fails leaves the map, the list and the count as
\* they were and creates no instance.
C3_FailedBuildLeavesNoTrace ==
    [][ (Len(built') = Len(built) + 1 /\ ~built'[Len(built')].ok) =>
           /\ mCache' = mCache
           /\ mMaterials' = mMaterials
           /\ getMaterialsCount' = getMaterialsCount
           /\ mi' = NoInstance
      ]_vars

\* C4: destroyMaterials empties the map and the list; afterwards the first
\* call with a key built before builds once more, and calls with a key that
\* is in the cache build nothing.
C4_TeardownThenRebuild ==
    [][ /\ DestroyStep =>
             /\ getMaterialsCount' = 0
             /\ mMaterials' = << >>
             /\ mCache' = EmptyCache
        /\ (CallStep /\ config' \notin DOMAIN mCache
              /\ \E p \in 2..Len(built) : built[p].key = config') =>
             /\ Len(built') = Len(built) + 1
             /\ built'[Len(built')].key = config'
             /\ config' \in DOMAIN mCache'
        /\ (CallStep /\ config' \in DOMAIN mCache) => built' = built
      ]_vars

\* A key built, torn down, built again by the next call and found by the call
\* after that.
C4_Witness ==
    /\ Len(calls) = 3
    /\ teardown.calls = 1
    /\ calls[1].key = calls[2].key /\ calls[2].key = calls[3].key
    /\ Len(built) = 3
    /\ built[2].key = built[3].key
    /\ calls[2].material = 3 /\ calls[3].material = 3
    /\ getMaterialsCount = 1

\* C5: every Material built by a call is destroyed exactly once, by the
\* destroyMaterials that finds it in the cache, and never again;
\* destroyMaterials can be called in every state.
C5_ReleasedExactlyOnce ==
    /\ \A p \in 2..Len(built) :
          built[p].ok => destroyed[p] = (IF p \in CachedMaterials THEN 0 ELSE 1)
    /\ \A p \in 1..Len(destroyed) : destroyed[p] <= 1
    /\ alive => ENABLED destroyMaterials

\* One Material released by a teardown, another one in the cache since.
C5_Witness ==
    /\ \E p \in 2..Len(built) : destroyed[p] = 1
    /\ \E q \in CachedMaterials : q # Null /\ destroyed[q] = 0

\* The index bound for a channel on an instance.
IndexOf(instance, c) ==
    CASE c = "baseColor" -> instance.baseColorIndex
      [] c = "normal" -> instance.normalIndex
      [] c = "metallicRoughness" -> instance.metallicRoughnessIndex
      [] c = "ao" -> instance.aoIndex
      [] c = "emissive" -> instance.emissiveIndex

\* The key constrainMaterial leaves in *config for the arguments of a call.
NormalizedKey(raw) == constrainMaterial(raw.key, raw.uvmap).key

\* C6: a call normalizes, then looks up (building and inserting on a miss),
\* then binds: the key searched for, the key inserted, the key handed to the
\* build and the key the parameters are computed from are the key after
\* constrainMaterial, and the instance is bound to the Material the lookup
\* gave.
C6_NormalizedKeyThroughout ==
    /\ DOMAIN mCache = {NormalizedKey(calls[i].raw) : i \in CurrentCalls}
    /\ \A p \in CurrentBuilds :
          \E i \in CurrentCalls : built[p].key = NormalizedKey(calls[i].raw)
    /\ \A i \in 1..Len(calls) :
          LET n == constrainMaterial(calls[i].raw.key, calls[i].raw.uvmap)
          IN  /\ calls[i].key = n.key
              /\ calls[i].instance # NoInstance =>
                    calls[i].instance = BindParameters(calls[i].material, n.key, n.uvmap)
    /\ (Len(calls) \in CurrentCalls /\ mi # NoInstance) =>
          /\ config \in DOMAIN mCache
          /\ mi.material = mCache[config]

\* A call whose key constrainMaterial changed (a channel on a source set with
\* slot 3): the cache holds the changed key, not the one passed, and the
\* channel is bound to -1.
C6_Witness ==
    /\ arg # NoCall /\ mi # NoInstance
    /\ arg.key # config
    /\ config \in DOMAIN mCache
    /\ arg.key \notin DOMAIN mCache
    /\ mi.material = mCache[config]
    /\ \E c \in Channels :
          /\ HasTexture(arg.key, c) /\ ~HasTexture(config, c)
          /\ arg.uvmap[ChannelUV(arg.key, c)] = 3
          /\ IndexOf(mi, c) = -1

\* C7: on the instance returned, the index of each of the five channels is
\* uvmap[channelUV] - 1 when the channel's has*Texture flag is set in *config
\* as the call leaves it, and -1 when it is not.
C7_BoundUvIndices ==
    mi # NoInstance =>
       \A c \in Channels :
          IndexOf(mi, c) =
             (IF HasTexture(config, c) THEN uvmap[ChannelUV(config, c)] - 1 ELSE -1)

\* hasBaseColorTexture, baseColorUV = 3, uvmap[3] = 2: baseColorIndex is 1,
\* and the normal channel, without a texture, has index -1.
C7_Witness ==
    /\ mi # NoInstance
    /\ config.hasBaseColorTexture /\ config.baseColorUV = 3 /\ uvmap[3] = 2
    /\ mi.baseColorIndex = 1
    /\ ~config.hasNormalTexture /\ mi.normalIndex = -1

\* C8: blendEnabled is set on an instance exactly when the key's alphaMode
\* is BLEND, whether the call found its key in the cache or not.
C8_BlendFlag ==
    \A i \in 1..Len(calls) :
       calls[i].instance # NoInstance =>
          calls[i].instance.blendEnabled = (calls[i].key.alphaMode = "BLEND")

\* Two calls with one BLEND key, the second a hit, both with blendEnabled.
C8_Witness ==
    /\ Len(calls) = 2 /\ teardown.calls = 0
    /\ Len(built) = 2
    /\ calls[1].key.alphaMode = "BLEND" /\ calls[2].key = calls[1].key
    /\ calls[1].instance.blendEnabled /\ calls[2].instance.blendEnabled

\* k1 has a texture on one channel, k2 has none there, and they are equal in
\* everything else.
TexturePresenceOnly(k1, k2) ==
    \E c \in Channels :
       /\ HasTexture(k1, c) /\ ~HasTexture(k2, c)
       /\ WithChannel(k1, c, FALSE, ChannelUV(k1, c)) = k2

\* C9 as stated: two calls whose keys differ in the presence of one texture
\* only use one Material, built once.
C9_OneProgramForBothPresences ==
    \A i, j \in CurrentCalls :
       TexturePresenceOnly(calls[i].key, calls[j].key) =>
          /\ calls[i].material = calls[j].material
          /\ \A p, q \in CurrentBuilds :
                (built[p].key \in {calls[i].key, calls[j].key}
                   /\ built[q].key \in {calls[i].key, calls[j].key}) => p = q

\* C9, amended: two calls whose keys differ in the presence of one texture
\* only are two cache entries, each with its own build; the two builds are
\* given the same shader text, parameter declarations and render state, the
\* Materials differ, and the channel's index is >= 0 on one instance and -1
\* on the other.
C9_SameShaderSeparateBuilds ==
    \A i, j \in CurrentCalls :
       TexturePresenceOnly(calls[i].key, calls[j].key) =>
          /\ \E p, q \in CurrentBuilds :
                /\ p # q
                /\ built[p].key = calls[i].key /\ built[q].key = calls[j].key
                /\ built[p].shader = built[q].shader
                /\ built[p].parameters = built[q].parameters
                /\ built[p].blending = built[q].blending
                /\ built[p].shading = built[q].shading
          /\ {calls[i].key, calls[j].key} \subseteq DOMAIN mCache
          /\ getMaterialsCount >= 2
          /\ (calls[i].material # Null \/ calls[j].material # Null) =>
                calls[i].material # calls[j].material
          /\ (calls[i].instance # NoInstance /\ calls[j].instance # NoInstance) =>
                \A c \in Channels :
                   (HasTexture(calls[i].key, c) /\ ~HasTexture(calls[j].key, c)) =>
                      /\ IndexOf(calls[i].instance, c) >= 0
                      /\ IndexOf(calls[j].instance, c) = -1

\* Two such calls, both with an instance, on two built Materials.
C9_Witness ==
    \E i, j \in CurrentCalls :
       /\ TexturePresenceOnly(calls[i].key, calls[j].key)
       /\ calls[i].material # Null /\ calls[j].material # Null
       /\ calls[i].material # calls[j].material
       /\ calls[i].instance # NoInstance /\ calls[j].instance # NoInstance
       /\ calls[i].instance.normalIndex = 1 /\ calls[j].instance.normalIndex = -1

\* r1 and r2 differ in the UV index of one channel only, and the channel is
\* disabled in both keys after constrainMaterial.
DisabledUvOnly(r1, r2) ==
    /\ r1.uvmap = r2.uvmap
    /\ r1.label = r2.label
    /\ \E c \in Channels :
          /\ ChannelUV(r1.key, c) # ChannelUV(r2.key, c)
          /\ WithChannel(r1.key, c, HasTexture(r1.key, c), ChannelUV(r2.key, c)) = r2.key
          /\ ~HasTexture(NormalizedKey(r1), c)
          /\ ~HasTexture(NormalizedKey(r2), c)

C12_DisabledStaysDisabled ==
    /\ \A i \in 1..Len(calls) :
          \A c \in Channels :
             /\ calls[i].raw.uvmap[ChannelUV(calls[i].raw.key, c)] = 0 =>
                   ~HasTexture(calls[i].key, c)
             /\ ~HasTexture(calls[i].raw.key, c) => ~HasTexture(calls[i].key, c)
    /\ arg # NoCall =>
          \A c \in Channels :
             /\ arg.uvmap[ChannelUV(arg.key, c)] = 0 => ~HasTexture(config, c)
             /\ ~HasTexture(arg.key, c) => ~HasTexture(config, c)

\* hasNormalTexture passed set with uvmap[normalUV] = 0: cleared by the call.
C12_Witness ==
    /\ arg # NoCall
    /\ arg.key.hasNormalTexture
    /\ arg.uvmap[arg.key.normalUV] = 0
    /\ ~config.hasNormalTexture
    /\ mi # NoInstance /\ mi.normalIndex = -1

\* C13: after the call every channel whose flag is still set reads a UV set
\* with slot 1 or 2; every bound index is -1, 0 or 1, it is -1 exactly on the
\* channels without a flag, and an index above -1 is inside uvs[2].
C13_IndicesInRange ==
    /\ arg # NoCall =>
          \A c \in Channels :
             HasTexture(config, c) => uvmap[ChannelUV(config, c)] \in 1..MaxSlots
    /\ \A i \in 1..Len(calls) :
          calls[i].instance # NoInstance =>
             \A c \in Channels :
                /\ IndexOf(calls[i].instance, c) \in {-1, 0, 1}
                /\ IndexOf(calls[i].instance, c) = -1 <=> ~HasTexture(calls[i].key, c)
                /\ IndexOf(calls[i].instance, c) > -1 =>
                      IndexOf(calls[i].instance, c) < MaxSlots

\* One call with a channel on slot 2 (index 1), one with a channel on a slot
\* beyond the shader's two (flag cleared, index -1).
C13_Witness ==
    \E i, j \in 1..Len(calls) :
       \E c \in Channels :
          /\ calls[i].instance # NoInstance /\ calls[j].instance # NoInstance
          /\ HasTexture(calls[i].key, c)
          /\ calls[i].raw.uvmap[ChannelUV(calls[i].key, c)] = MaxSlots
          /\ IndexOf(calls[i].instance, c) = 1
          /\ HasTexture(calls[j].raw.key, c)
          /\ calls[j].raw.uvmap[ChannelUV(calls[j].raw.key, c)] > MaxSlots
          /\ ~HasTexture(calls[j].key, c)
          /\ IndexOf(calls[j].instance, c) = -1

\* C14: two builds for equal keys are given the same shader text and the
\* same parameter declarations in the same order, whatever the UvMap and
\* the label of the calls and whatever was built or torn down in between.
C14_SynthesisDependsOnKeyOnly ==
    \A p, q \in 2..Len(built) :
       built[p].key = built[q].key =>
          /\ built[p].shader = built[q].shader
          /\ built[p].parameters = built[q].parameters

\* One key built twice, around a teardown, by calls with different UvMaps.
C14_Witness ==
    \E i, j \in 1..Len(calls) :
       /\ calls[i].key = calls[j].key
       /\ calls[i].raw.uvmap # calls[j].raw.uvmap
       /\ calls[i].material # Null /\ calls[j].material # Null
       /\ calls[i].material # calls[j].material
       /\ built[calls[i].material].key = built[calls[j].material].key
       /\ built[calls[i].material].shader = built[calls[j].material].shader

\* The MaterialInstances created so far.
InstanceCount == Cardinality({i \in 1..Len(calls) : calls[i].instance # NoInstance})

\* C15: a call that returns an instance creates exactly one; a call destroys
\* no Material and changes no Material built before, no entry of the map and
\* no entry of the list; a call that finds its key leaves the map, the list
\* and the count as they were and builds nothing.
C15_CallFrame ==
    [][ CallStep =>
          /\ InstanceCount' = InstanceCount + (IF mi' # NoInstance THEN 1 ELSE 0)
          /\ \A p \in 1..Len(destroyed) : destroyed'[p] = destroyed[p]
          /\ SubSeq(built', 1, Len(built)) = built
          /\ \A k \in DOMAIN mCache : k \in DOMAIN mCache' /\ mCache'[k] = mCache[k]
          /\ SubSeq(mMaterials', 1, Len(mMaterials)) = mMaterials
          /\ config' \in DOMAIN mCache =>
                /\ mCache' = mCache
                /\ mMaterials' = mMaterials
                /\ getMaterialsCount' = getMaterialsCount
                /\ built' = built
                /\ destroyed' = destroyed
      ]_vars

\* Two calls with one key: one build, one entry, two instances, nothing
\* destroyed.
C15_Witness ==
    /\ Len(calls) = 2 /\ teardown.calls = 0
    /\ calls[1].key = calls[2].key
    /\ calls[1].material # Null
    /\ InstanceCount = 2
    /\ Len(built) = 2
    /\ getMaterialsCount = 1
    /\ \A p \in 1..Len(destroyed) : destroyed[p] = 0

\* C16: the build of a key is given OPAQUE blending for alphaMode OPAQUE,
\* MASKED blending and the key's alphaMaskThreshold for MASK, TRANSPARENT
\* blending with depth write on for BLEND, and UNLIT shading for an unlit
\* key, LIT otherwise.
C16_RenderState ==
    \A p \in 2..Len(built) :
       LET k == built[p].key
       IN  /\ k.alphaMode = "OPAQUE" => built[p].blending = "OPAQUE"
           /\ k.alphaMode = "MASK" =>
                 /\ built[p].blending = "MASKED"
                 /\ built[p].maskThreshold = k.alphaMaskThreshold
           /\ k.alphaMode = "BLEND" =>
                 /\ built[p].blending = "TRANSPARENT"
                 /\ built[p].depthWrite = "on"
           /\ built[p].shading = (IF k.unlit THEN "UNLIT" ELSE "LIT")

\* A MASK key with threshold 0.3 and a BLEND key, both built.
C16_Witness ==
    \E p, q \in 2..Len(built) :
       /\ built[p].key.alphaMode = "MASK" /\ built[p].key.alphaMaskThreshold = 3
       /\ built[p].blending = "MASKED" /\ built[p].maskThreshold = 3
       /\ built[q].key.alphaMode = "BLEND"
       /\ built[q].blending = "TRANSPARENT" /\ built[q].depthWrite = "on"
       /\ built[q].shading = "LIT"

\* C17: when destroyMaterials returns, every Material the loader has built,
\* the constructor's mMaterial and the one of each miss, has been destroyed.
C17_AllBuiltReleased ==
    [][ DestroyStep =>
           \A p \in 1..Len(built') : built'[p].ok => destroyed'[p] >= 1
      ]_vars

\* C18: no instance a call returned (none is destroyed here: the loader
\* destroys no instance) is bound to a Material that has been destroyed.
C18_NoInstanceOfDestroyedMaterial ==
    \A i \in 1..Len(calls) :
       (calls[i].instance # NoInstance /\ calls[i].instance.material # Null) =>
          destroyed[calls[i].instance.material] = 0

====
